---- MODULE Spec2Model ----
(***************************************************************************)
(* Model of the GHC25 GraphQL workshop helpers: the naming utilities of    *)
(* helpers_env.py, the find-then-create / create-then-catch provisioning   *)
(* functions of helpers_appsync.py, helpers_pipeline_resolvers.py,         *)
(* helpers_ddb_pricing.py and helpers_sns_sqs.py, the schema upload poll   *)
(* loop and the update-then-create resolver functions.                     *)
(*                                                                         *)
(* Strings are sequences of one-character strings.  The cloud account is   *)
(* the only state the code works on; it is held in `account`.             *)
(***************************************************************************)
EXTENDS Integers, Sequences, FiniteSets, TLC

VARIABLES
    pc,       \* position of the (single, sequential) caller
    args,     \* arguments of the invocation in progress / last made
    ret,      \* outcome of the last invocation: returned value or raised fault
    account,  \* the cloud account: listings of every resource kind
    calls,    \* service calls issued by the invocation, in order
    polls,    \* upload_schema: get_schema_creation_status calls made so far
    procs     \* the two concurrent ensure_api callers

vars == <<pc, args, ret, account, calls, polls, procs>>

NoRet == [kind |-> "none"]
Return(v) == [kind |-> "return", val |-> v]
Raise(e) == [kind |-> "raise", val |-> e]

EmptyAccount ==
    [apis |-> <<>>, dataSources |-> <<>>, tables |-> <<>>, topics |-> <<>>,
     queues |-> <<>>, resolvers |-> {}, functions |-> {}]

Min(a, b) == IF a < b THEN a ELSE b
Max(a, b) == IF a > b THEN a ELSE b

(***************************************************************************)
(* Characters and strings                                                  *)
(***************************************************************************)
LowerLetters ==
    {"a","b","c","d","e","f","g","h","i","j","k","l","m",
     "n","o","p","q","r","s","t","u","v","w","x","y","z"}
Digits == {"0","1","2","3","4","5","6","7","8","9"}

\* The characters input strings are drawn from: a lower-case letter, an
\* upper-case letter, a digit, the hyphen, the space and one character
\* outside [A-Za-z0-9 -].
Alphabet == {"a", "B", "1", "-", " ", "!"}

MaxLen == 3

RECURSIVE StringsUpTo(_)
StringsUpTo(n) ==
    IF n = 0 THEN {<<>>}
    ELSE LET shorter == StringsUpTo(n - 1)
         IN  shorter \cup {Append(s, c) : s \in {t \in shorter : Len(t) = n - 1}, c \in Alphabet}

Strings == StringsUpTo(MaxLen)

\* str.lower()
LowerChar(c) == IF c = "B" THEN "b" ELSE c
Lower(s) == [i \in DOMAIN s |-> LowerChar(s[i])]

\* str.strip(chars): drop leading and trailing characters of the set
RECURSIVE LStrip(_, _)
LStrip(s, cs) ==
    IF s # <<>> /\ Head(s) \in cs THEN LStrip(Tail(s), cs) ELSE s
RECURSIVE RStrip(_, _)
RStrip(s, cs) ==
    IF s # <<>> /\ s[Len(s)] \in cs THEN RStrip(SubSeq(s, 1, Len(s) - 1), cs) ELSE s
Strip(s, cs) == RStrip(LStrip(s, cs), cs)

\* str.replace(" ", "-")
ReplaceSpaces(s) == [i \in DOMAIN s |-> IF s[i] = " " THEN "-" ELSE s[i]]

\* re.sub(r"[^a-z0-9-]", "", s)
IsAllowed(c) == c \in LowerLetters \cup Digits \cup {"-"}
RemoveDisallowed(s) == SelectSeq(s, IsAllowed)

\* re.sub(r"-+", "-", s)
RECURSIVE CollapseHyphens(_)
CollapseHyphens(s) ==
    IF Len(s) < 2 THEN s
    ELSE IF s[1] = "-" /\ s[2] = "-" THEN CollapseHyphens(Tail(s))
    ELSE <<s[1]>> \o CollapseHyphens(Tail(s))

\* str.isalpha() of one character
IsAlpha(c) == c \in LowerLetters \cup {"B"}

(***************************************************************************)
(* helpers_env.py                                                          *)
(***************************************************************************)
Marker == <<"u", "-">>

sanitize_name(name) ==
    LET s1 == ReplaceSpaces(Strip(Lower(name), {" "}))
        s2 == RemoveDisallowed(s1)
        s3 == Strip(CollapseHyphens(s2), {"-"})
    IN  IF s3 = <<>> \/ ~IsAlpha(s3[1]) THEN Marker \o s3 ELSE s3

Compose(prefix, base, suffix) == prefix \o <<"-">> \o base \o <<"-">> \o suffix

\* a cut that is one character short
TruncateBase_OneShort(base, overflow) ==
    IF overflow < Len(base)
    THEN SubSeq(base, 1, Len(base) - overflow + 1)
    ELSE SubSeq(base, 1, Min(Len(base), Max(1, Len(base) - overflow)))

\* base[:-overflow] if overflow < len(base) else base[:max(1, len(base)-overflow)]
TruncateBase(base, overflow) ==
    IF overflow < Len(base)
    THEN SubSeq(base, 1, Len(base) - overflow)
    ELSE SubSeq(base, 1, Min(Len(base), Max(1, Len(base) - overflow)))

\* returns <<candidate, base>>
build_api_name(display_name, suffix, prefix, max_len) ==
    LET base == sanitize_name(display_name)
        candidate == Compose(prefix, base, suffix)
    IN  IF Len(candidate) > max_len
        THEN LET cut == TruncateBase(base, Len(candidate) - max_len)
             IN  <<Compose(prefix, cut, suffix), cut>>
        ELSE <<candidate, base>>

\* the check of the second argument left out
validate_identifiers_FirstOnly(first_name_prefix, birth_mmdd) ==
    IF first_name_prefix = "" \/ first_name_prefix = "NAME"
    THEN Raise("ValueError")
    ELSE Return("None")

validate_identifiers(first_name_prefix, birth_mmdd) ==
    IF first_name_prefix = "" \/ first_name_prefix = "NAME"
    THEN Raise("ValueError")
    ELSE IF birth_mmdd = "" \/ birth_mmdd = "MMDD"
    THEN Raise("ValueError")
    ELSE Return("None")

(***************************************************************************)
(* Specification of sanitize_name: the input is drawn from Strings, one    *)
(* action applies the function, a second applies it to its own output.     *)
(***************************************************************************)
Unused == /\ account = EmptyAccount
          /\ calls = <<>>
          /\ polls = 0
          /\ procs = <<>>

InitSanitize ==
    /\ pc = "call"
    /\ args \in {[name |-> s] : s \in Strings}
    /\ ret = NoRet
    /\ Unused

CallSanitize ==
    /\ pc = "call"
    /\ ret' = Return(sanitize_name(args.name))
    /\ pc' = "again"
    /\ UNCHANGED <<args, account, calls, polls, procs>>

\* feed the output back in
CallSanitizeAgain ==
    /\ pc = "again"
    /\ args' = [name |-> ret.val]
    /\ ret' = Return(sanitize_name(ret.val))
    /\ pc' = "done"
    /\ UNCHANGED <<account, calls, polls, procs>>

NextSanitize == CallSanitize \/ CallSanitizeAgain

SpecSanitize == InitSanitize /\ [][NextSanitize]_vars

\* The characters a name may consist of.
NameChars == LowerLetters \cup Digits \cup {"-"}

HasDoubleHyphen(s) == \E i \in 1..(Len(s) - 1) : s[i] = "-" /\ s[i + 1] = "-"

WellFormedName(s) ==
    /\ \A i \in DOMAIN s : s[i] \in NameChars
    /\ s # <<>>
    /\ s[1] \in LowerLetters
    /\ s[Len(s)] # "-"
    /\ ~HasDoubleHyphen(s)

\* C3: sanitize_name is idempotent: applied to its own output it returns that
\* output unchanged, for every input, the empty one included.
C3_SanitizeIdempotent ==
    pc = "done" => ret.val = args.name

\* C4: every output of sanitize_name consists of lower-case letters, digits
\* and hyphens only, starts with a letter, has no leading, trailing or
\* doubled hyphen.
C4_SanitizeWellFormed ==
    pc = "again" => WellFormedName(ret.val)

(***************************************************************************)
(* Specification of build_api_name                                         *)
(***************************************************************************)
Prefixes == {<<"g">>, <<"g", "h">>}
Suffixes == {<<"0">>, <<"0", "3">>}
MaxApiLen == 9

InitBuild ==
    /\ pc = "call"
    /\ args \in [display_name : Strings, suffix : Suffixes, prefix : Prefixes,
                 max_len : 0..MaxApiLen]
    /\ ret = NoRet
    /\ Unused

CallBuildApiName ==
    /\ pc = "call"
    /\ ret' = Return(build_api_name(args.display_name, args.suffix, args.prefix, args.max_len))
    /\ pc' = "done"
    /\ UNCHANGED <<args, account, calls, polls, procs>>

NextBuild == CallBuildApiName

SpecBuild == InitBuild /\ [][NextBuild]_vars

IsPrefixOf(p, s) == Len(p) <= Len(s) /\ SubSeq(s, 1, Len(p)) = p

\* prefix-base-suffix with prefix and suffix untouched, base the second
\* returned value and an initial segment of the sanitized display name
BuildShape ==
    LET full == ret.val[1]
        base == ret.val[2]
    IN  /\ full = args.prefix \o <<"-">> \o base \o <<"-">> \o args.suffix
        /\ IsPrefixOf(base, sanitize_name(args.display_name))

\* the shortest name that keeps prefix, suffix, both separators and one
\* character of the base
MinBuildLen == Len(args.prefix) + Len(args.suffix) + 3

\* C5 as stated: the full name never exceeds max_len and has the shape
\* prefix-base-suffix, base an initial segment of the sanitized name.
C5_BuildWithinMaxLen ==
    pc = "done" => Len(ret.val[1]) <= args.max_len /\ BuildShape

\* C5 amended: the full name has the shape prefix-base-suffix, base a
\* non-empty initial segment of the sanitized name; its length is at most
\* max_len whenever max_len >= len(prefix) + len(suffix) + 3, and is
\* exactly len(prefix) + len(suffix) + 3 (a one-character base) otherwise.
C5_BuildBounded ==
    pc = "done" =>
        /\ BuildShape
        /\ ret.val[2] # <<>>
        /\ IF args.max_len >= MinBuildLen
           THEN Len(ret.val[1]) <= args.max_len
           ELSE Len(ret.val[1]) = MinBuildLen

\* a call in which the base was cut and the name fills max_len exactly
C5_Witness ==
    /\ pc = "done"
    /\ Len(ret.val[2]) < Len(sanitize_name(args.display_name))
    /\ Len(ret.val[2]) > 1
    /\ Len(ret.val[1]) = args.max_len

(***************************************************************************)
(* Specification of validate_identifiers                                   *)
(***************************************************************************)
Identifiers == {"", "NAME", "MMDD", "name", "mmdd", " NAME", "ANNA", "0315"}

InitValidate ==
    /\ pc = "call"
    /\ args \in [first_name_prefix : Identifiers, birth_mmdd : Identifiers]
    /\ ret = NoRet
    /\ Unused

CallValidate ==
    /\ pc = "call"
    /\ ret' = validate_identifiers(args.first_name_prefix, args.birth_mmdd)
    /\ pc' = "done"
    /\ UNCHANGED <<args, account, calls, polls, procs>>

NextValidate == CallValidate

SpecValidate == InitValidate /\ [][NextValidate]_vars

\* C6 as stated: validate_identifiers raises exactly when first_name_prefix
\* is "NAME" or birth_mmdd is "MMDD".
C6_RaisesIffSentinel ==
    pc = "done" =>
        (ret.kind = "raise" <=>
            (args.first_name_prefix = "NAME" \/ args.birth_mmdd = "MMDD"))

\* C6 amended: validate_identifiers raises exactly when first_name_prefix is
\* empty or "NAME", or birth_mmdd is empty or "MMDD"; otherwise it returns.
C6_RaisesIffSentinelOrEmpty ==
    pc = "done" =>
        /\ ret.kind \in {"raise", "return"}
        /\ ret.kind = "raise" <=>
              \/ args.first_name_prefix \in {"", "NAME"}
              \/ args.birth_mmdd \in {"", "MMDD"}

\* the second sentinel alone makes the call raise
C6_Witness ==
    /\ pc = "done"
    /\ args.first_name_prefix = "ANNA"
    /\ args.birth_mmdd = "MMDD"
    /\ ret.kind = "raise"

(***************************************************************************)
(* helpers_appsync.py: upload_schema.  One step issues                     *)
(* start_schema_creation, then each step is one iteration of the poll      *)
(* loop; the status the service reports is the environment's choice.       *)
(***************************************************************************)
MaxPolls == 30

Statuses == {"PROCESSING", "ACTIVE", "DELETING", "SUCCESS", "FAILED", "NOT_APPLICABLE"}

\* the statuses on which the loop stops
IsTerminal(status) == status \in {"SUCCESS", "FAILED", "NOT_APPLICABLE"}

\* a loop that raises on FAILED only
TerminalOutcome_FailedOnly(status) ==
    IF status = "FAILED" THEN Raise("RuntimeError") ELSE Return("None")

\* what the loop does with a terminal status
TerminalOutcome(status) ==
    IF status # "SUCCESS" THEN Raise("RuntimeError") ELSE Return("None")

InitSchema ==
    /\ pc = "start"
    /\ args = [api_id |-> "api", status |-> "none"]
    /\ ret = NoRet
    /\ Unused

StartSchemaCreation ==
    /\ pc = "start"
    /\ calls' = Append(calls, "start_schema_creation")
    /\ \/ pc' = "poll" /\ ret' = ret
       \/ pc' = "done" /\ ret' = Raise("ServiceFault")
    /\ UNCHANGED <<args, account, polls, procs>>

PollStatus ==
    /\ pc = "poll"
    /\ polls < MaxPolls
    /\ polls' = polls + 1
    /\ \/ \E status \in Statuses :
            /\ args' = [args EXCEPT !.status = status]
            /\ IF IsTerminal(status)
               THEN pc' = "done" /\ ret' = TerminalOutcome(status)
               ELSE IF polls + 1 = MaxPolls
               THEN pc' = "done" /\ ret' = Return("None")
               ELSE pc' = "poll" /\ ret' = ret
       \/ pc' = "done" /\ ret' = Raise("ServiceFault") /\ args' = args
    /\ UNCHANGED <<account, calls, procs>>

NextSchema == StartSchemaCreation \/ PollStatus

SpecSchema == InitSchema /\ [][NextSchema]_vars

\* one start call, made before any poll; at most 30 polls; no poll after a
\* terminal status
SchemaCallPattern ==
    /\ Len(calls) <= 1
    /\ polls > 0 => calls = <<"start_schema_creation">>
    /\ polls <= 30
    /\ IsTerminal(args.status) => pc = "done"

\* C7 as stated: one start_schema_creation, then at most 30 polls, stopping at
\* the first terminal status; the call raises on a terminal status other
\* than SUCCESS or NOT_APPLICABLE and returns on SUCCESS or NOT_APPLICABLE.
C7_NotApplicableReturns ==
    /\ SchemaCallPattern
    /\ IsTerminal(args.status) =>
          IF args.status \in {"SUCCESS", "NOT_APPLICABLE"}
          THEN ret.kind = "return"
          ELSE ret.kind = "raise"

\* C7 amended: one start_schema_creation, then at most 30 polls, stopping at
\* the first terminal status; the call raises when that status is FAILED or
\* NOT_APPLICABLE and returns without raising when it is SUCCESS.
C7_OnlySuccessReturns ==
    /\ SchemaCallPattern
    /\ IsTerminal(args.status) =>
          IF args.status = "SUCCESS"
          THEN ret = Return("None")
          ELSE ret = Raise("RuntimeError")

\* the call saw NOT_APPLICABLE after some non-terminal polls and raised
C7_Witness ==
    /\ pc = "done"
    /\ polls > 1
    /\ args.status = "NOT_APPLICABLE"
    /\ ret.kind = "raise"

\* C10: upload_schema returns normally only if a poll reported SUCCESS; 30
\* non-terminal polls end in an error, not in a normal return.
C10_ReturnsOnlyOnSuccess ==
    pc = "done" /\ ret.kind = "return" => args.status = "SUCCESS"

(***************************************************************************)
(* Update-then-create: upsert_js_resolver (helpers_appsync.py),            *)
(* create_pipeline_resolver and create_function                            *)
(* (helpers_pipeline_resolvers.py).  The caller is sequential, so one      *)
(* action is one whole invocation; what each service call answers is the   *)
(* environment's choice, within what the account allows.                   *)
(***************************************************************************)
Fields == {"getCost", "putCost"}
FunctionNames == {"writeCost", "notify"}

UpdateOp(fn) == IF fn = "create_function" THEN "update_function" ELSE "update_resolver"
CreateOp(fn) == IF fn = "create_function" THEN "create_function" ELSE "create_resolver"
Store(fn) == IF fn = "create_function" THEN "functions" ELSE "resolvers"

UpsertFunctions == {"upsert_js_resolver", "create_pipeline_resolver", "create_function"}
Targets(fn) == IF fn = "create_function" THEN FunctionNames ELSE Fields

\* the answers the service can give to an update of `target`
UpdateAnswers(fn, target) ==
    (IF target \in account[Store(fn)] THEN {"ok"} ELSE {"NotFoundException"})
        \cup {"ServiceFault"}

\* a bare except: every fault of the update is caught
IsCaught_Any(answer) == answer # "ok"

\* except client.exceptions.NotFoundException
IsCaught(answer) == answer = "NotFoundException"

\* the try/except body: the calls made and the outcome, given the answers
UpdateThenCreate(fn, upd, crt) ==
    LET first == [op |-> UpdateOp(fn), answer |-> upd]
        second == [op |-> CreateOp(fn), answer |-> crt]
    IN  IF upd = "ok" THEN [calls |-> <<first>>, ret |-> Return("ok")]
        ELSE IF IsCaught(upd)
        THEN [calls |-> <<first, second>>,
              ret |-> IF crt = "ok" THEN Return("ok") ELSE Raise(crt)]
        ELSE [calls |-> <<first>>, ret |-> Raise(upd)]

InitUpsert ==
    /\ pc = "call"
    /\ args = [fn |-> "none"]
    /\ ret = NoRet
    /\ Unused

CallUpsert ==
    /\ pc = "call"
    /\ \E fn \in UpsertFunctions : \E target \in Targets(fn) :
       \E upd \in UpdateAnswers(fn, target) : \E crt \in {"ok", "ServiceFault"} :
          LET run == UpdateThenCreate(fn, upd, crt)
              created == Len(run.calls) = 2 /\ crt = "ok"
          IN  /\ args' = [fn |-> fn, target |-> target]
              /\ calls' = run.calls
              /\ ret' = run.ret
              /\ account' = IF created
                            THEN [account EXCEPT ![Store(fn)] = @ \cup {target}]
                            ELSE account
    /\ UNCHANGED <<pc, polls, procs>>

NextUpsert == CallUpsert

SpecUpsert == InitUpsert /\ [][NextUpsert]_vars

\* C8: the update call comes first; a create follows only when the update
\* raised the not-found signal, and then exactly one; a successful update is
\* followed by no create; any other fault of the update reaches the caller
\* and no create is issued.
C8_UpdateThenCreate ==
    calls # <<>> =>
        /\ calls[1].op = UpdateOp(args.fn)
        /\ \A i \in 2..Len(calls) : calls[i].op = CreateOp(args.fn)
        /\ CASE calls[1].answer = "NotFoundException" -> Len(calls) = 2
             [] calls[1].answer = "ok" -> Len(calls) = 1 /\ ret.kind = "return"
             [] OTHER -> Len(calls) = 1 /\ ret = Raise(calls[1].answer)

\* an update that found nothing was followed by a create that made the target
C8_Witness ==
    /\ Len(calls) = 2
    /\ calls[1].answer = "NotFoundException"
    /\ calls[2].answer = "ok"
    /\ args.target \in account[Store(args.fn)]

(***************************************************************************)
(* The account's resources.  A resource is [name, id, cfg]; every listing  *)
(* of the account is a sequence in the order the service lists it, and a   *)
(* list call without a token answers with its first PageSize entries.      *)
(***************************************************************************)
NoResource == [name |-> <<>>, id |-> 0, cfg |-> "none"]

PageSize == 1
MaxResources == 2

Names == {<<"a">>, <<"b">>, <<"b", "a">>}

TopicSuffix == <<"-","p","r","i","c","e","-","c","h","a","n","g","e","s">>
QueueSuffix == <<"-","p","r","i","c","e","-","p","r","o","c","e","s","s","i","n","g">>

\* the names resources made outside these helpers may carry
NamesOfKind(kind) ==
    CASE kind = "topics" -> {n \o TopicSuffix : n \in Names}
      [] kind = "queues" -> {n \o QueueSuffix : n \in Names}
                              \cup {<<"a">> \o QueueSuffix \o <<"-","d","l","q">>}
      [] OTHER -> Names

Kinds == {"apis", "dataSources", "tables", "topics", "queues"}

TotalResources(acct) ==
    Len(acct.apis) + Len(acct.dataSources) + Len(acct.tables)
        + Len(acct.topics) + Len(acct.queues)

\* the service's own lookup of a name: exact, over the whole listing
Existing(listing, name) ==
    IF \E i \in DOMAIN listing : listing[i].name = name
    THEN listing[CHOOSE i \in DOMAIN listing :
                    /\ listing[i].name = name
                    /\ \A j \in 1..(i - 1) : listing[j].name # name]
    ELSE NoResource

NewResource(listing, name, cfg) == [name |-> name, id |-> Len(listing) + 1, cfg |-> cfg]

AddResource(acct, kind, name, cfg) ==
    [acct EXCEPT ![kind] = Append(@, NewResource(@, name, cfg))]

Call(op, answer) == [op |-> op, answer |-> answer]

\* one page of a listing, starting after `token` entries
Page(listing, token) == SubSeq(listing, token + 1, Min(Len(listing), token + PageSize))
\* a lookup that never asks for a second page
NextToken_Never(listing, token) == 0

NextToken(listing, token) ==
    IF token + PageSize < Len(listing) THEN token + PageSize ELSE 0

\* `x in s` of two strings
Contains(sub, s) ==
    \E i \in 0..(Len(s) - Len(sub)) : SubSeq(s, i + 1, i + Len(sub)) = sub

Arn(service, r) == <<"arn:aws:", service, ":region:account:">> \o r.name

(***************************************************************************)
(* helpers_appsync.py: find_api_by_name, ensure_api                        *)
(***************************************************************************)
\* for api in resp.get("graphqlApis", []): if api["name"] == name: return api
MatchInPage(page, name) == Existing(page, name)

\* the while loop over pages: [api, pages], pages the list calls made
RECURSIVE FindFrom(_, _, _, _)
FindFrom(listing, name, token, pages) ==
    LET api == MatchInPage(Page(listing, token), name)
        next == NextToken(listing, token)
    IN  IF api # NoResource THEN [api |-> api, pages |-> pages + 1]
        ELSE IF next = 0 THEN [api |-> NoResource, pages |-> pages + 1]
        ELSE FindFrom(listing, name, next, pages + 1)

find_api_by_name(listing, name) == FindFrom(listing, name, 0, 0)

ListCalls(op, n) == [i \in 1..n |-> Call(op, "ok")]

\* [calls, ret, account] of one invocation; `answer` is what the service
\* answers to the creation call, should one be made
ensure_api(acct, name, answer) ==
    LET found == find_api_by_name(acct.apis, name)
        lists == ListCalls("list_graphql_apis", found.pages)
    IN  IF found.api # NoResource
        THEN [calls |-> lists, ret |-> Return(found.api), account |-> acct]
        ELSE IF answer = "ok"
        THEN [calls |-> Append(lists, Call("create_graphql_api", "ok")),
              ret |-> Return(NewResource(acct.apis, name, "API_KEY")),
              account |-> AddResource(acct, "apis", name, "API_KEY")]
        ELSE [calls |-> Append(lists, Call("create_graphql_api", answer)),
              ret |-> Raise(answer), account |-> acct]

(***************************************************************************)
(* ensure_ddb_ds, ensure_none_ds (helpers_appsync.py), ensure_sns_ds       *)
(* (helpers_pipeline_resolvers.py): one list_data_sources call, no token   *)
(***************************************************************************)
DataSourceType(fn) ==
    CASE fn = "ensure_ddb_ds" -> "AMAZON_DYNAMODB"
      [] fn = "ensure_none_ds" -> "NONE"
      [] fn = "ensure_sns_ds" -> "HTTP"

\* what create_data_source may answer: a name in use is refused
DataSourceAnswers(acct, name) ==
    IF Existing(acct.dataSources, name) # NoResource
    THEN {"ConflictException"}
    ELSE {"ok", "ServiceFault"}

ensure_ds(acct, fn, name, answer) ==
    LET ds == Page(acct.dataSources, 0)
        d == Existing(ds, name)
        lists == <<Call("list_data_sources", "ok")>>
    IN  IF d # NoResource
        THEN [calls |-> lists, ret |-> Return(d), account |-> acct]
        ELSE IF answer = "ok"
        THEN [calls |-> Append(lists, Call("create_data_source", "ok")),
              ret |-> Return(NewResource(acct.dataSources, name, DataSourceType(fn))),
              account |-> AddResource(acct, "dataSources", name, DataSourceType(fn))]
        ELSE [calls |-> Append(lists, Call("create_data_source", answer)),
              ret |-> Raise(answer), account |-> acct]

(***************************************************************************)
(* helpers_ddb_pricing.py: ensure_catalog_table, ensure_cost_table         *)
(***************************************************************************)
TableKey(fn) == IF fn = "ensure_catalog_table" THEN "asin" ELSE "asinVendor"

ensure_table(acct, fn, table_name, answer) ==
    LET t == Existing(acct.tables, table_name)
    IN  IF t # NoResource
        THEN [calls |-> <<Call("describe_table", "ok")>>, ret |-> Return(t), account |-> acct]
        ELSE IF answer = "ok"
        THEN LET after == AddResource(acct, "tables", table_name, TableKey(fn))
             IN  [calls |-> <<Call("describe_table", "ResourceNotFoundException"),
                              Call("create_table", "ok"),
                              Call("table_exists.wait", "ok"),
                              Call("describe_table", "ok")>>,
                  ret |-> Return(Existing(after.tables, table_name)),
                  account |-> after]
        ELSE [calls |-> <<Call("describe_table", "ResourceNotFoundException"),
                          Call("create_table", answer)>>,
              ret |-> Raise(answer), account |-> acct]

(***************************************************************************)
(* helpers_sns_sqs.py: ensure_sns_topic, ensure_sqs_queue.  The creation   *)
(* call is made first.  For a name in use the service either answers with  *)
(* the existing resource or refuses with an "already exists" fault (the    *)
(* existing resource has other attributes).                                *)
(***************************************************************************)
CreateFirstAnswers(listing, name) ==
    IF Existing(listing, name) # NoResource
    THEN {"ok", "AlreadyExists"}
    ELSE {"ok", "ServiceFault"}

\* "already exists" in str(e).lower()
SaysAlreadyExists(answer) == answer = "AlreadyExists"

\* next((t['TopicArn'] for t in topics if topic_name in t['TopicArn']), None)
TopicMatches(topic_name, t) == Contains(topic_name, Arn("sns", t))

FirstTopic(topics, topic_name) ==
    IF \E i \in DOMAIN topics : TopicMatches(topic_name, topics[i])
    THEN topics[CHOOSE i \in DOMAIN topics :
                   /\ TopicMatches(topic_name, topics[i])
                   /\ \A j \in 1..(i - 1) : ~TopicMatches(topic_name, topics[j])]
    ELSE NoResource

ensure_sns_topic(acct, api_name, answer) ==
    LET topic_name == api_name \o TopicSuffix
        existing == Existing(acct.topics, topic_name)
        create == Call("create_topic", answer)
    IN  IF answer = "ok"
        THEN IF existing # NoResource
             THEN [calls |-> <<create>>, ret |-> Return(existing), account |-> acct]
             ELSE [calls |-> <<create>>,
                   ret |-> Return(NewResource(acct.topics, topic_name, "topic")),
                   account |-> AddResource(acct, "topics", topic_name, "topic")]
        ELSE IF SaysAlreadyExists(answer)
        THEN [calls |-> <<create, Call("list_topics", "ok")>>,
              ret |-> Return(FirstTopic(Page(acct.topics, 0), topic_name)),
              account |-> acct]
        ELSE [calls |-> <<create>>, ret |-> Raise(answer), account |-> acct]

\* list_queues(QueueNamePrefix=queue_name)
IsPrefixedBy(q, queue_name) == IsPrefixOf(queue_name, q.name)
ListQueues(queues, queue_name) ==
    LET Keep(q) == IsPrefixedBy(q, queue_name)
    IN  Page(SelectSeq(queues, Keep), 0)

ensure_sqs_queue(acct, api_name, answer) ==
    LET queue_name == api_name \o QueueSuffix
        existing == Existing(acct.queues, queue_name)
        create == Call("create_queue", answer)
        attrs == Call("get_queue_attributes", "ok")
    IN  IF answer = "ok"
        THEN IF existing # NoResource
             THEN [calls |-> <<create, attrs>>, ret |-> Return(existing), account |-> acct]
             ELSE [calls |-> <<create, attrs>>,
                   ret |-> Return(NewResource(acct.queues, queue_name, "queue")),
                   account |-> AddResource(acct, "queues", queue_name, "queue")]
        ELSE IF SaysAlreadyExists(answer)
        THEN LET queues == ListQueues(acct.queues, queue_name)
             IN  IF queues # <<>>
                 THEN [calls |-> <<create, Call("list_queues", "ok"), attrs>>,
                       ret |-> Return(queues[1]), account |-> acct]
                 ELSE [calls |-> <<create, Call("list_queues", "ok")>>,
                       ret |-> Raise(answer), account |-> acct]
        ELSE [calls |-> <<create>>, ret |-> Raise(answer), account |-> acct]

(***************************************************************************)
(* Specification of the ensure-style functions: a sequential caller makes  *)
(* one invocation after the other against an account that other users      *)
(* add resources to.                                                       *)
(***************************************************************************)
NoCall == [fn |-> "none"]

InitEnsure ==
    /\ pc = "call"
    /\ args = NoCall
    /\ ret = NoRet
    /\ Unused

\* a resource made outside these helpers (console, another script)
OtherCreates ==
    /\ pc = "call"
    /\ TotalResources(account) < MaxResources
    /\ \E kind \in Kinds : \E name \in NamesOfKind(kind) :
          /\ kind # "apis" => Existing(account[kind], name) = NoResource
          /\ account' = AddResource(account, kind, name, "other")
    /\ args' = NoCall
    /\ ret' = NoRet
    /\ calls' = <<>>
    /\ UNCHANGED <<pc, polls, procs>>

\* the invocation `run` of fn for the resource `name` of `kind`
Invoke(fn, kind, name, run) ==
    /\ pc = "call"
    /\ TotalResources(run.account) <= MaxResources
    /\ args' = [fn |-> fn, kind |-> kind, name |-> name, before |-> account[kind]]
    /\ calls' = run.calls
    /\ ret' = run.ret
    /\ account' = run.account
    /\ UNCHANGED <<pc, polls, procs>>

CallEnsureApi ==
    \E name \in Names : \E answer \in {"ok", "ServiceFault"} :
        Invoke("ensure_api", "apis", name, ensure_api(account, name, answer))

CallEnsureDs ==
    \E fn \in {"ensure_ddb_ds", "ensure_none_ds", "ensure_sns_ds"} :
    \E name \in Names : \E answer \in DataSourceAnswers(account, name) :
        Invoke(fn, "dataSources", name, ensure_ds(account, fn, name, answer))

CallEnsureTable ==
    \E fn \in {"ensure_catalog_table", "ensure_cost_table"} :
    \E name \in Names : \E answer \in {"ok", "ServiceFault"} :
        Invoke(fn, "tables", name, ensure_table(account, fn, name, answer))

CallEnsureSnsTopic ==
    \E api_name \in Names :
    \E answer \in CreateFirstAnswers(account.topics, api_name \o TopicSuffix) :
        Invoke("ensure_sns_topic", "topics", api_name \o TopicSuffix,
               ensure_sns_topic(account, api_name, answer))

CallEnsureSqsQueue ==
    \E api_name \in Names :
    \E answer \in CreateFirstAnswers(account.queues, api_name \o QueueSuffix) :
        Invoke("ensure_sqs_queue", "queues", api_name \o QueueSuffix,
               ensure_sqs_queue(account, api_name, answer))

NextEnsure ==
    \/ OtherCreates
    \/ CallEnsureApi
    \/ CallEnsureDs
    \/ CallEnsureTable
    \/ CallEnsureSnsTopic
    \/ CallEnsureSqsQueue

SpecEnsure == InitEnsure /\ [][NextEnsure]_vars

CreationOps ==
    {"create_graphql_api", "create_data_source", "create_table", "create_topic", "create_queue"}

Creations == Cardinality({i \in DOMAIN calls : calls[i].op \in CreationOps})

Range(s) == {s[i] : i \in DOMAIN s}

\* C1: an ensure-style function called for a name no resource carries issues
\* exactly one creation call and returns the created resource; called for a
\* name in use it issues no creation call and returns the existing resource.
C1_CreateOnlyWhenMissing ==
    args.fn # "none" =>
        LET existing == Existing(args.before, args.name)
        IN  IF existing = NoResource
            THEN /\ Creations = 1
                 /\ ret.kind = "return" =>
                       /\ ret.val.name = args.name
                       /\ ret.val \notin Range(args.before)
                       /\ ret.val \in Range(account[args.kind])
            ELSE /\ Creations = 0
                 /\ ret = Return(existing)

\* C2: a resource returned as already existing carries exactly the requested
\* name, and a resource of the requested name is found wherever the listing
\* holds it.
C2_ExactNameEveryPage ==
    args.fn # "none" =>
        /\ ret.kind = "return" /\ ret.val \in Range(args.before)
              => ret.val.name = args.name
        /\ Existing(args.before, args.name) # NoResource
              => ret.kind = "return" /\ ret.val.name = args.name

(***************************************************************************)
(* Two callers run ensure_api at the same time.  Every service call is one *)
(* step: each page of find_api_by_name's loop, then create_graphql_api.    *)
(* The service accepts a second API of a name in use, or answers a fault.  *)
(***************************************************************************)
Callers == {1, 2}
Other(p) == 3 - p

MaxInitialApis == 1

RECURSIVE ListingsUpTo(_)
ListingsUpTo(n) ==
    IF n = 0 THEN {<<>>}
    ELSE LET shorter == ListingsUpTo(n - 1)
         IN  shorter \cup {Append(l, NewResource(l, name, "other")) :
                              l \in {k \in shorter : Len(k) = n - 1}, name \in Names}

InitRace ==
    /\ pc = "race"
    /\ args = NoCall
    /\ ret = NoRet
    /\ calls = <<>>
    /\ polls = 0
    /\ \E apis \in ListingsUpTo(MaxInitialApis) : account = [EmptyAccount EXCEPT !.apis = apis]
    /\ procs \in [Callers -> [pc : {"find"}, name : Names, token : {0}, ret : {NoRet},
                              creates : {0}, startedAfter : {FALSE}]]

\* one iteration of find_api_by_name's loop, and the `if api` after it
ListApisPage(p) ==
    /\ procs[p].pc = "find"
    /\ LET me == procs[p]
           api == MatchInPage(Page(account.apis, me.token), me.name)
           next == NextToken(account.apis, me.token)
           started == IF me.token = 0 THEN procs[Other(p)].pc = "done" ELSE me.startedAfter
       IN  procs' = [procs EXCEPT ![p] =
               IF api # NoResource
               THEN [me EXCEPT !.pc = "done", !.ret = Return(api), !.startedAfter = started]
               ELSE IF next = 0
               THEN [me EXCEPT !.pc = "create", !.startedAfter = started]
               ELSE [me EXCEPT !.token = next, !.startedAfter = started]]
    /\ UNCHANGED <<pc, args, ret, account, calls, polls>>

\* client.create_graphql_api(**kwargs)["graphqlApi"]
CreateApi(p) ==
    /\ procs[p].pc = "create"
    /\ \/ /\ account' = AddResource(account, "apis", procs[p].name, "API_KEY")
          /\ procs' = [procs EXCEPT ![p].pc = "done", ![p].creates = 1,
                          ![p].ret = Return(NewResource(account.apis, procs[p].name, "API_KEY"))]
       \/ /\ account' = account
          /\ procs' = [procs EXCEPT ![p].pc = "done", ![p].creates = 1,
                          ![p].ret = Raise("ServiceFault")]
    /\ UNCHANGED <<pc, args, ret, calls, polls>>

NextRace == \E p \in Callers : ListApisPage(p) \/ CreateApi(p)

SpecRace == InitRace /\ [][NextRace]_vars

ApisNamed(n) == {i \in DOMAIN account.apis : account.apis[i].name = n}

\* no API of that name was in the account before the two callers started
InitiallyAbsent(n) == \A i \in ApisNamed(n) : account.apis[i].cfg # "other"

\* C9: of two ensure_api calls for the same, initially absent name, both can
\* take the missing branch and create, leaving two APIs of that name; this
\* happens only when the calls overlap and both issued create_graphql_api.  A
\* call that starts after the other has finished finds the other's API,
\* creates nothing, and the name is carried by at most one API.
C9_DuplicatesOnlyWhenInterleaved ==
    \A p \in Callers :
        LET q == Other(p)
            n == procs[p].name
        IN  pc = "race" /\ procs[q].name = n /\ InitiallyAbsent(n) =>
               /\ Cardinality(ApisNamed(n)) <= 2
               /\ Cardinality(ApisNamed(n)) = 2 =>
                     /\ procs[p].creates = 1 /\ procs[q].creates = 1
                     /\ ~procs[p].startedAfter /\ ~procs[q].startedAfter
               /\ procs[p].startedAfter => Cardinality(ApisNamed(n)) <= 1
               /\ procs[p].startedAfter /\ procs[p].pc = "done" /\ procs[q].ret.kind = "return" =>
                     /\ procs[p].ret = procs[q].ret
                     /\ procs[p].creates = 0

\* both callers created: two APIs carry the name neither found
C9_Witness ==
    /\ pc = "race"
    /\ procs[1].name = procs[2].name
    /\ InitiallyAbsent(procs[1].name)
    /\ Cardinality(ApisNamed(procs[1].name)) = 2
    /\ procs[1].ret.kind = "return" /\ procs[2].ret.kind = "return"
    /\ procs[1].ret # procs[2].ret

====
